---------------------------- MODULE Spec2Model ----------------------------
(***************************************************************************)
(* LocalChat: serverless peer-to-peer chat over WebRTC data channels.      *)
(*                                                                         *)
(* The module models                                                       *)
(*   - WebRTCManager (webrtc.js): offer/answer creation, the channel       *)
(*     handlers, envelope dispatch, send, cleanup/destroy and the          *)
(*     descriptor codec (JSON + LZString base64);                          *)
(*   - the application (app.js): state, initHost/initJoin, showInviteModal,*)
(*     handleScan, sendMessage, broadcastMessage, kickPeer, confirmExit    *)
(*     and the callbacks installed by setupWebRTCHandlers;                 *)
(*   - the browser objects the code drives (RTCPeerConnection,             *)
(*     RTCDataChannel) as far as the code observes them.                   *)
(***************************************************************************)
EXTENDS Integers, Sequences, FiniteSets, TLC

\* ------------------------------------------------------------------ bounds
\* Longest sdp body of a descriptor drawn for the codec specification.
MaxSdpLen == 3
\* Connections the host creates in one run (invitations).
MaxOffers == 2
\* Connections one guest creates in one run (accepted scans).
MaxScans == 1
\* Guests that tap "join" in one run of the one-to-one session.
MaxJoins == 1
\* Guest devices beside the one host device.
NGuests == 2
\* Largest value Date.now() takes on a device (registry keys).
MaxClock == 2
\* Chat messages typed by users in one run.
MaxChats == 1
\* Connections that deliver a second end-of-candidates event in one run.
MaxIceAgain == 1
\* Subscriptions a store holds at a time.
MaxSubs == 3
\* Largest value a store key takes (values are 0..MaxVal).
MaxVal == 1

\* ------------------------------------------------------- devices and users
Host == "H"
GuestIds == << "G1", "G2", "G3" >>
Guests == {GuestIds[i] : i \in 1..NGuests}
Apps == {Host} \cup Guests

\* The RTCPeerConnection objects a run can create are numbered: the host's
\* first, then each guest's.
PCs == 1..(MaxOffers + NGuests * MaxScans)
SlotsOf(a) ==
  IF a = Host THEN 1..MaxOffers
  ELSE LET i == CHOOSE k \in 1..NGuests : GuestIds[k] = a
       IN (MaxOffers + (i - 1) * MaxScans + 1)..(MaxOffers + i * MaxScans)

\* ------------------------------------------------------- descriptor codec
LF == "\n"

\* The characters a token's JSON text is made of; a character's code in the
\* compressed bit stream is its position here (code 0 ends the stream).
Alphabet ==
  << "{", "}", "\"", ":", ",", "\\",
     "t", "y", "p", "e", "o", "f", "r", "a", "n", "s", "w", "d",
     "0", "1", "2", "3", "4", "5", "6", "7", "8", "9", "c", LF >>

CodeBits == 5
UnitBits == 6
PadSymbol == 64

CodeOf(c) == CHOOSE i \in 1..Len(Alphabet) : Alphabet[i] = c

Pow2(n) == IF n = 0 THEN 1 ELSE IF n = 1 THEN 2 ELSE IF n = 2 THEN 4
           ELSE IF n = 3 THEN 8 ELSE IF n = 4 THEN 16 ELSE 32

\* Bit k (1 = most significant) of the w-bit number v.
BitOf(v, w, k) == (v \div Pow2(w - k)) % 2

TypeChars(t) ==
  IF t = "offer" THEN << "o", "f", "f", "e", "r" >>
  ELSE IF t = "answer" THEN << "a", "n", "s", "w", "e", "r" >>
  ELSE << >>

TypeOfChars(s) ==
  IF s = TypeChars("offer") THEN "offer"
  ELSE IF s = TypeChars("answer") THEN "answer"
  ELSE "invalid"

\* JSON.stringify of one string character.
EscapeChar(c) ==
  IF c = "\"" THEN << "\\", "\"" >>
  ELSE IF c = "\\" THEN << "\\", "\\" >>
  ELSE IF c = LF THEN << "\\", "n" >>
  ELSE << c >>

RECURSIVE Escape(_)
Escape(s) == IF s = << >> THEN << >> ELSE EscapeChar(Head(s)) \o Escape(Tail(s))

\* JSON.stringify(desc) of a session description {type, sdp}.
JSONstringify(d) ==
  << "{", "\"", "t", "y", "p", "e", "\"", ":", "\"" >> \o Escape(TypeChars(d.type))
  \o << "\"", ",", "\"", "s", "d", "p", "\"", ":", "\"" >> \o Escape(d.sdp)
  \o << "\"", "}" >>

\* Reads a JSON string body starting at text[i] (after the opening quote):
\* [ok, val, next] with next the position after the closing quote.
RECURSIVE ReadString(_, _, _)
ReadString(text, i, acc) ==
  IF i > Len(text) THEN [ok |-> FALSE, val |-> acc, next |-> i]
  ELSE IF text[i] = "\"" THEN [ok |-> TRUE, val |-> acc, next |-> i + 1]
  ELSE IF text[i] = LF THEN [ok |-> FALSE, val |-> acc, next |-> i]
  ELSE IF text[i] = "\\" THEN
    IF i + 1 > Len(text) THEN [ok |-> FALSE, val |-> acc, next |-> i]
    ELSE IF text[i + 1] = "\"" THEN ReadString(text, i + 2, Append(acc, "\""))
    ELSE IF text[i + 1] = "\\" THEN ReadString(text, i + 2, Append(acc, "\\"))
    ELSE IF text[i + 1] = "n" THEN ReadString(text, i + 2, Append(acc, LF))
    ELSE [ok |-> FALSE, val |-> acc, next |-> i]
  ELSE ReadString(text, i + 1, Append(acc, text[i]))

HasAt(text, i, part) ==
  /\ i + Len(part) - 1 <= Len(text)
  /\ \A k \in 1..Len(part) : text[i + k - 1] = part[k]

NullText == << "n", "u", "l", "l" >>

\* JSON.parse(text): kind "object" with the members read, kind "null" for
\* the value null (JSON.parse(null) parses the text "null"), kind "error"
\* for a SyntaxError.
JSONparse(text) ==
  LET bad == [kind |-> "error", type |-> "invalid", sdp |-> << >>]
      open == << "{", "\"", "t", "y", "p", "e", "\"", ":", "\"" >>
      mid == << ",", "\"", "s", "d", "p", "\"", ":", "\"" >>
  IN IF text = NullText THEN [kind |-> "null", type |-> "invalid", sdp |-> << >>]
     ELSE IF ~HasAt(text, 1, open) THEN bad
     ELSE LET t == ReadString(text, Len(open) + 1, << >>)
          IN IF ~t.ok \/ ~HasAt(text, t.next, mid) THEN bad
             ELSE LET s == ReadString(text, t.next + Len(mid), << >>)
                  IN IF ~s.ok \/ s.next # Len(text) \/ text[s.next] # "}" THEN bad
                     ELSE [kind |-> "object", type |-> TypeOfChars(t.val),
                           sdp |-> s.val]

\* LZString.compressToBase64(text): the text as a bit stream of character
\* codes closed by the end-of-stream code, cut into base64 units, the last
\* one zero-filled, and padded with "=" to a multiple of four units.
CompressToBase64(text) ==
  LET nbits == (Len(text) + 1) * CodeBits
      bit(i) == IF i > nbits THEN 0
                ELSE LET j == ((i - 1) \div CodeBits) + 1
                         k == ((i - 1) % CodeBits) + 1
                     IN IF j > Len(text) THEN 0
                        ELSE BitOf(CodeOf(text[j]), CodeBits, k)
      nunits == (nbits + UnitBits - 1) \div UnitBits
      unit(u) == bit(6*u - 5) * 32 + bit(6*u - 4) * 16 + bit(6*u - 3) * 8
                 + bit(6*u - 2) * 4 + bit(6*u - 1) * 2 + bit(6*u)
      total == ((nunits + 3) \div 4) * 4
  IN [u \in 1..total |-> IF u <= nunits THEN unit(u) ELSE PadSymbol]

\* LZString.decompressFromBase64(data): [ok, text]; ok is FALSE when the
\* library returns null (empty input, or a stream with no end-of-stream code).
DecompressFromBase64(data) ==
  LET units == SelectSeq(data, LAMBDA x : x # PadSymbol)
      nbits == Len(units) * UnitBits
      bit(i) == BitOf(units[((i - 1) \div UnitBits) + 1], UnitBits,
                      ((i - 1) % UnitBits) + 1)
      ncodes == nbits \div CodeBits
      code(j) == bit(5*j - 4) * 16 + bit(5*j - 3) * 8 + bit(5*j - 2) * 4
                 + bit(5*j - 1) * 2 + bit(5*j)
      ends == {j \in 1..ncodes : code(j) = 0}
  IN IF data = << >> \/ ends = {} THEN [ok |-> FALSE, text |-> << >>]
     ELSE LET n == (CHOOSE j \in ends : \A k \in ends : j <= k) - 1
          IN IF \E j \in 1..n : code(j) > Len(Alphabet)
             THEN [ok |-> FALSE, text |-> << >>]
             ELSE [ok |-> TRUE, text |-> [j \in 1..n |-> Alphabet[code(j)]]]

\* compressDescription writing the members between quotes as they are.
compressDescriptionDropEscape(desc) ==
  CompressToBase64(
    << "{", "\"", "t", "y", "p", "e", "\"", ":", "\"" >> \o TypeChars(desc.type)
    \o << "\"", ",", "\"", "s", "d", "p", "\"", ":", "\"" >> \o desc.sdp
    \o << "\"", "}" >>)

\* WebRTCManager.compressDescription(desc), LZString loaded.
compressDescription(desc) == CompressToBase64(JSONstringify(desc))

\* WebRTCManager.decompressDescription(data): JSON.parse of the decompressed
\* text; JSON.parse(null) is the value null.
decompressDescription(data) ==
  LET r == DecompressFromBase64(data)
  IN IF r.ok THEN JSONparse(r.text) ELSE JSONparse(NullText)


\* ------------------------------------------------------------ session sdp
Digits == << "0", "1", "2", "3", "4", "5", "6", "7", "8", "9" >>

\* Decimal text of a connection number, as it stands in its sdp.
RECURSIVE Dec(_)
Dec(n) == IF n < 10 THEN << Digits[n + 1] >>
          ELSE Append(Dec(n \div 10), Digits[(n % 10) + 1])

IsDigit(c) == \E i \in 1..10 : Digits[i] = c
DigitVal(c) == (CHOOSE i \in 1..10 : Digits[i] = c) - 1

\* The session description text of connection p: an origin line, and a
\* candidate line once the candidates are part of it.
SdpOf(p, cand) == Dec(p) \o << LF >> \o (IF cand THEN << "c", LF >> ELSE << >>)

\* What RTCPeerConnection.setRemoteDescription reads from an sdp.
SdpOriginLen(sdp) ==
  IF \E i \in 1..Len(sdp) : sdp[i] = LF
  THEN (CHOOSE i \in 1..Len(sdp) : sdp[i] = LF /\ \A k \in 1..(i - 1) : sdp[k] # LF) - 1
  ELSE 0

RECURSIVE DecVal(_, _)
DecVal(s, n) == IF n = 0 THEN 0 ELSE DecVal(s, n - 1) * 10 + DigitVal(s[n])

SdpValid(sdp) ==
  LET n == SdpOriginLen(sdp)
  IN /\ n >= 1
     /\ \A k \in 1..n : IsDigit(sdp[k])
     /\ SubSeq(sdp, n + 2, Len(sdp)) \in {<< >>, << "c", LF >>}

SdpPc(sdp) == DecVal(sdp, SdpOriginLen(sdp))
SdpCand(sdp) == SubSeq(sdp, SdpOriginLen(sdp) + 2, Len(sdp)) = << "c", LF >>

NoDesc == [kind |-> "none", type |-> "invalid", sdp |-> << >>]
Desc(t, p, cand) == [kind |-> "object", type |-> t, sdp |-> SdpOf(p, cand)]

\* Texts a scanner can deliver that are no token: one that decompresses to
\* null, one that decompresses to a text that is not JSON.
GarbageNull == << 63, 63, 63, 63 >>
GarbageSyntax == << 1, 2, 3, 0, 0 >>
Garbage == {GarbageNull, GarbageSyntax}

\* The tokens of the descriptions a run can create, computed once:
\* compressDescription of each, and decompressDescription of each text a
\* scanner can deliver.
TokenOf ==
  [t \in {"offer", "answer"}, p \in PCs, c \in BOOLEAN |->
     compressDescription(Desc(t, p, c))]
ScanTexts ==
  {TokenOf[t, p, c] : t \in {"offer", "answer"}, p \in PCs, c \in BOOLEAN}
  \cup Garbage
Decoded == [data \in ScanTexts |-> decompressDescription(data)]

\* -------------------------------------------------------------- profiles
NameOf(a) == IF a = "H" THEN "Ann" ELSE IF a = "G1" THEN "Bob"
             ELSE IF a = "G2" THEN "Cid" ELSE "Dee"

\* state.user of device a (id generated by initApp, name from saveProfile).
UserOf(a) == [id |-> a, name |-> NameOf(a)]
NoUser == [id |-> "", name |-> ""]

\* ---------------------------------------------------------- wire envelopes
Env(t, text, user, userId) ==
  [type |-> t, text |-> text, user |-> user, userId |-> userId]
NoEnv == Env("none", << >>, NoUser, "")
ChatEnv(text, user) == Env("chat", text, user, "")
SystemEnv(text) == Env("system", text, NoUser, "")
IdentityEnv(user) == Env("identity", << >>, user, "")
ReqIdentityEnv == Env("req-identity", << >>, NoUser, "")
LeaveEnv(userId) == Env("leave", << >>, NoUser, userId)
KickEnv == Env("kick", << >>, NoUser, "")
CloseEnv == Env("close", << >>, NoUser, "")
\* An envelope of a type handleMessage has no case for.
UnknownEnv == Env("ping", << >>, NoUser, "")

JoinedText(user) == << user.name, " joined." >>
HiText == << "hi" >>

VARIABLES
  state,    \* app.js `state` of each device
  webrtc,   \* app.js `webrtc`: the device's WebRTCManager, if created
  pcs,      \* every RTCPeerConnection created, with its data channel
  inbox,    \* per connection: frames received and not yet dispatched
  store,    \* state.js `store.state.lastEvent` of each device
  qr,       \* per device: the token last drawn on the QR canvas
  clk,      \* per device: Date.now()
  chats,    \* chat messages typed so far
  ev,       \* the handler that ran last and what it did
  codec,    \* the codec under test (codec specification)
  bus       \* the StateManager under test (store specification)

vars == << state, webrtc, pcs, inbox, store, qr, clk, chats, ev, codec, bus >>

\* ------------------------------------------------------------ initial state
\* app.js lines 15-26.
InitState ==
  [isHost |-> FALSE, isConnected |-> FALSE, peers |-> {},
   currentScreen |-> "login", scanner |-> FALSE]

\* The page once the user has saved a profile (saveProfile: showScreen('lobby')).
LobbyState == [InitState EXCEPT !.currentScreen = "lobby"]

\* app.js line 197: let webrtc = null; webrtc.js constructor.
NoManager ==
  [exists |-> FALSE, localPC |-> 0, channel |-> 0, isHost |-> FALSE, cb |-> FALSE]
NewManager ==
  [exists |-> TRUE, localPC |-> 0, channel |-> 0, isHost |-> FALSE, cb |-> FALSE]

NoEvent == [op |-> "init", app |-> "", pc |-> 0, env |-> NoEnv, sent |-> << >>,
            shown |-> << >>, logged |-> << >>, err |-> "", ret |-> "", data |-> << >>]

\* ------------------------------------------------- StateManager (state.js)
\* Keys of the central state object, and the events of the store: the
\* generic event and `${key}:change` of each key.
StoreKeys == {"a", "b"}
ChangeOf(key) == IF key = "a" THEN "a:change" ELSE "b:change"
StoreEvents == {"update"} \cup {ChangeOf(k) : k \in StoreKeys}

\* The callbacks subscribed in a run. Callback 1 only reads the state; 2
\* unsubscribes itself when called (a one-time listener); 3 unsubscribes
\* callback 1. Removes(cb) is the callback it hands to off (0: none).
Callbacks == {1, 2, 3}
Removes(cb) == IF cb = 2 THEN 2 ELSE IF cb = 3 THEN 1 ELSE 0

\* new StateManager(initialState): this.listeners, a Map from event to array,
\* is kept as a function (no entry and an empty array behave alike in off and
\* emit); log, start, prev and updates record the last setState call.
NewStore ==
  [state |-> [k \in StoreKeys |-> 0],
   listeners |-> [e \in StoreEvents |-> << >>],
   op |-> "new", log |-> << >>,
   start |-> [e \in StoreEvents |-> << >>],
   prev |-> [k \in StoreKeys |-> 0],
   updates |-> << >>]

\* callbacks.indexOf(callback), 0 for -1.
IndexOf(seq, cb) ==
  IF \E i \in 1..Len(seq) : seq[i] = cb
  THEN CHOOSE i \in 1..Len(seq) : seq[i] = cb /\ \A j \in 1..(i - 1) : seq[j] # cb
  ELSE 0

\* callbacks.splice(index, 1)
Splice(seq, i) == SubSeq(seq, 1, i - 1) \o SubSeq(seq, i + 1, Len(seq))

\* StateManager.on(event, callback)
StoreOn(B, event, cb) == [B EXCEPT !.listeners[event] = Append(@, cb)]

\* StateManager.off(event, callback)
StoreOff(B, event, cb) ==
  LET index == IndexOf(B.listeners[event], cb)
  IN IF index > 0 THEN [B EXCEPT !.listeners[event] = Splice(@, index)] ELSE B

\* cb(data): the callback reads the state, then calls off if it is one that
\* unsubscribes.
Invoke(B, event, cb) ==
  LET B1 == [B EXCEPT !.log = Append(@, [cb |-> cb, event |-> event, seen |-> B.state])]
  IN IF Removes(cb) # 0 THEN StoreOff(B1, event, Removes(cb)) ELSE B1

\* callbacks.forEach(cb => cb(data)): indices 1..len, len read once at the
\* start; an index the array no longer has is passed over.
RECURSIVE ForEach(_, _, _, _)
ForEach(B, event, k, len) ==
  IF k > len THEN B
  ELSE IF k > Len(B.listeners[event]) THEN ForEach(B, event, k + 1, len)
  ELSE ForEach(Invoke(B, event, B.listeners[event][k]), event, k + 1, len)

\* StateManager.emit(event, data)
StoreEmit(B, event) == ForEach(B, event, 1, Len(B.listeners[event]))

\* Object.keys(updates).forEach(key => this.emit(`${key}:change`, ...))
RECURSIVE EmitKeys(_, _)
EmitKeys(B, keys) ==
  IF keys = << >> THEN B
  ELSE EmitKeys(StoreEmit(B, ChangeOf(Head(keys))), Tail(keys))

\* { ...this.state, ...updates }; updates is a sequence of <<key, value>>.
Merge(st, updates) ==
  [k \in StoreKeys |->
     IF \E i \in 1..Len(updates) : updates[i][1] = k
     THEN updates[CHOOSE i \in 1..Len(updates) : updates[i][1] = k][2]
     ELSE st[k]]

\* StateManager.setState(updates), event 'update'.
StoreSetState(B, updates) ==
  LET B1 == [B EXCEPT !.state = Merge(B.state, updates), !.op = "setState",
                      !.log = << >>, !.start = B.listeners, !.prev = B.state,
                      !.updates = updates]
      B2 == StoreEmit(B1, "update")
  IN EmitKeys(B2, [i \in 1..Len(updates) |-> updates[i][1]])

CodecIdle == [phase |-> "idle", desc |-> NoDesc, token |-> << >>, result |-> NoDesc]

\* A connection not created yet.
NoPC ==
  [made |-> FALSE, owner |-> "", offerer |-> FALSE, closed |-> TRUE, local |-> NoDesc,
   remote |-> NoDesc, rpc |-> 0, rcand |-> FALSE,
   ice |-> FALSE, gathered |-> FALSE, ends |-> 0, chan |-> "none"]

AppInit ==
  /\ state = [a \in Apps |-> LobbyState]
  /\ webrtc = [a \in Apps |-> NoManager]
  /\ pcs = [p \in PCs |-> NoPC]
  /\ inbox = [p \in PCs |-> << >>]
  /\ store = [a \in Apps |-> "none"]
  /\ qr = [a \in Apps |-> << >>]
  /\ clk = [a \in Apps |-> 1]
  /\ chats = 0
  /\ ev = NoEvent

Init == AppInit /\ codec = CodecIdle /\ bus = NewStore


\* ------------------------------------------------- browser objects (model)
\* The world one handler runs in: the program state, and what the handler
\* has sent, shown and raised so far. logged holds the entries handed to
\* storage.add (Storage.add of storage.js): app.js has no call of it, so no
\* handler adds to it.
World ==
  [state |-> state, webrtc |-> webrtc, pcs |-> pcs, inbox |-> inbox,
   store |-> store, qr |-> qr, clk |-> clk,
   sent |-> << >>, shown |-> << >>, logged |-> << >>, err |-> "", refuse |-> FALSE]

\* new RTCPeerConnection(rtcConfig)
NewPC(a, offerer) ==
  [made |-> TRUE, owner |-> a, offerer |-> offerer, closed |-> FALSE, local |-> NoDesc,
   remote |-> NoDesc, rpc |-> 0, rcand |-> FALSE,
   ice |-> FALSE, gathered |-> FALSE, ends |-> 0, chan |-> "none"]

\* Host connection h and guest connection g have applied each other's
\* descriptions.
Paired(P, h, g) ==
  /\ P[h].offerer /\ ~P[g].offerer
  /\ P[g].remote.kind = "object" /\ P[g].rpc = h
  /\ P[g].local.kind = "object"
  /\ P[h].remote.kind = "object" /\ P[h].rpc = g

PeerOf(P, p) ==
  LET c == {q \in PCs : q # p /\
              IF P[p].offerer THEN Paired(P, p, q) ELSE Paired(P, q, p)}
  IN IF c = {} THEN 0 ELSE CHOOSE q \in c : TRUE

\* Connectivity checks can succeed only if one side learnt a candidate of
\* the other from the description it was given (no trickle exchange).
IceCanConnect(P, h, g) == P[g].rcand \/ P[h].rcand

\* RTCPeerConnection.setRemoteDescription(d) resolves (else it rejects).
SetRemoteOk(P, p, d) ==
  /\ ~P[p].closed
  /\ d.kind = "object" /\ SdpValid(d.sdp)
  /\ P[p].remote.kind = "none"
  /\ IF P[p].offerer THEN d.type = "answer" /\ P[p].local.kind = "object"
     ELSE d.type = "offer" /\ P[p].local.kind = "none"

\* RTCPeerConnection.setRemoteDescription(d), resolved: the connection keeps
\* the description and what it read from it (the far connection, and whether
\* candidates came with it).
SetRemote(P, p, d) ==
  [P EXCEPT ![p] = [@ EXCEPT !.remote = d, !.rpc = SdpPc(d.sdp),
                             !.rcand = SdpCand(d.sdp)]]

\* RTCPeerConnection.localDescription
LocalDescription(P, p) ==
  IF P[p].local.kind = "object" THEN Desc(P[p].local.type, p, P[p].gathered)
  ELSE NoDesc

\* RTCDataChannel.close()
ChannelClose(P, c) ==
  [P EXCEPT ![c].chan = IF @ \in {"connecting", "open"} THEN "closing" ELSE @]

\* RTCPeerConnection.close(): the connection and its channel end at once.
PCClose(P, p) ==
  [P EXCEPT ![p].closed = TRUE, ![p].chan = IF @ = "none" THEN "none" ELSE "closed"]

Receiving(P, q) == q # 0 /\ ~P[q].closed /\ P[q].chan \in {"none", "connecting", "open"}

\* RTCDataChannel.send(frame) on channel c: throws unless the channel is open,
\* and throws when the transport refuses the frame (W.refuse: no room in the
\* send buffer, or a frame above the maximum message size).
RawSend(W, c, env) ==
  IF W.err # "" THEN W
  ELSE IF W.pcs[c].chan # "open" THEN [W EXCEPT !.err = "InvalidStateError"]
  ELSE IF W.refuse THEN [W EXCEPT !.err = "OperationError"]
  ELSE LET q == PeerOf(W.pcs, c)
       IN [W EXCEPT !.sent = Append(@, [pc |-> c, env |-> env]),
                    !.inbox = IF Receiving(W.pcs, q)
                              THEN [@ EXCEPT ![q] = Append(@, env)] ELSE @]

Show(W, kind, sender, text) ==
  IF W.err # "" THEN W
  ELSE [W EXCEPT !.shown = Append(@, [kind |-> kind, sender |-> sender, text |-> text])]

\* window.location.reload() on device a: the page and everything it created
\* is gone; the new page starts from the initial state.
Reload(W, a) ==
  LET mine == {p \in PCs : W.pcs[p].owner = a}
  IN [W EXCEPT !.state[a] = InitState,
               !.webrtc[a] = NoManager,
               !.store[a] = "none",
               !.qr[a] = << >>,
               !.pcs = [p \in PCs |->
                          IF p \in mine THEN PCClose(W.pcs, p)[p] ELSE W.pcs[p]],
               !.inbox = [p \in PCs |->
                          IF p \in mine THEN << >> ELSE W.inbox[p]]]

\* ------------------------------------------------------ WebRTCManager
\* WebRTCManager.emit(event, data): window.store.setState({lastEvent}).
emit(W, a, event) == IF W.err # "" THEN W ELSE [W EXCEPT !.store[a] = event]

\* WebRTCManager.send(type, payload) returns true.
sendAccepted(W, a) ==
  /\ W.webrtc[a].channel # 0
  /\ W.pcs[W.webrtc[a].channel].chan = "open"

\* WebRTCManager.send(type, payload)
send(W, a, env) ==
  IF W.err # "" THEN W
  ELSE IF sendAccepted(W, a) THEN RawSend(W, W.webrtc[a].channel, env)
  ELSE W

\* What send(type, payload) returns ("" when it raised).
sendReturns(W0, W, a) ==
  IF W.err # "" THEN "" ELSE IF sendAccepted(W0, a) THEN "true" ELSE "false"

\* cleanup() closing the channel and the connection without testing them.
cleanupUnguarded(W, a) ==
  LET m == W.webrtc[a]
  IN IF m.channel = 0 \/ m.localPC = 0
     THEN [W EXCEPT !.err = "TypeError: this.channel is null"]
     ELSE LET P2 == PCClose(ChannelClose(W.pcs, m.channel), m.localPC)
          IN [W EXCEPT !.pcs = P2,
                       !.inbox = [p \in PCs |->
                                    IF Receiving(P2, p) THEN W.inbox[p] ELSE << >>],
                       !.webrtc[a] = [m EXCEPT !.channel = 0, !.localPC = 0,
                                               !.isHost = FALSE]]

\* WebRTCManager.cleanup()
cleanup(W, a) ==
  LET m == W.webrtc[a]
      P1 == IF m.channel # 0 THEN ChannelClose(W.pcs, m.channel) ELSE W.pcs
      P2 == IF m.localPC # 0 THEN PCClose(P1, m.localPC) ELSE P1
  IN [W EXCEPT !.pcs = P2,
               !.inbox = [p \in PCs |->
                            IF Receiving(P2, p) THEN W.inbox[p] ELSE << >>],
               !.webrtc[a] = [m EXCEPT !.channel = 0, !.localPC = 0, !.isHost = FALSE]]

\* destroy() that leaves the callbacks assigned.
destroyKeepsCallbacks(W, a) == cleanup(W, a)

\* WebRTCManager.destroy()
destroy(W, a) ==
  LET W1 == cleanup(W, a)
  IN [W1 EXCEPT !.webrtc[a].cb = FALSE]

\* ------------------------------------------------------------ application
\* Object.entries(state.peers): integer-like keys come in ascending order.
RECURSIVE SortedPeers(_)
SortedPeers(S) ==
  IF S = {} THEN << >>
  ELSE LET r == CHOOSE x \in S : \A y \in S : x.key <= y.key
       IN << r >> \o SortedPeers(S \ {r})

\* state.peers[key] = {user, channel}
PutPeer(S, key, user, chan) ==
  {r \in S : r.key # key} \cup {[key |-> key, user |-> user, chan |-> chan]}

RECURSIVE SendToEach(_, _, _)
SendToEach(W, recs, env) ==
  IF recs = << >> THEN W
  ELSE LET r == Head(recs)
           W1 == IF r.chan # 0 /\ W.pcs[r.chan].chan = "open"
                 THEN RawSend(W, r.chan, env) ELSE W
       IN SendToEach(W1, Tail(recs), env)

\* broadcastMessage(message, excludeId); excludeId 0 stands for null.
broadcastMessage(W, a, env, excludeId) ==
  IF W.err # "" \/ ~W.state[a].isHost \/ ~W.webrtc[a].exists THEN W
  ELSE SendToEach(W, SortedPeers({r \in W.state[a].peers : r.key # excludeId}), env)

\* webrtc.onMessage, relaying the envelope to every peer.
onMessageRelayAll(W, a, from, msg) ==
  LET W1 == IF msg.type = "chat" THEN Show(W, "chat", msg.user.name, msg.text)
            ELSE IF msg.type = "system" THEN Show(W, "system", "", msg.text)
            ELSE W
  IN broadcastMessage(W1, a, msg, 0)

\* webrtc.onMessage (set by setupWebRTCHandlers); from is the channel the
\* envelope arrived on, which the handler is not given.
onMessage(W, a, from, msg) ==
  IF msg.type = "chat" THEN Show(W, "chat", msg.user.name, msg.text)
  ELSE IF msg.type = "system" THEN Show(W, "system", "", msg.text)
  ELSE W

\* webrtc.onPeerJoin; now is Date.now().
onPeerJoin(W, a, user, now) ==
  LET W1 == [W EXCEPT !.state[a].peers = PutPeer(@, now, user, W.webrtc[a].channel),
                      !.clk[a] = now]
      W2 == Show(W1, "system", "", JoinedText(user))
  IN broadcastMessage(W2, a, SystemEnv(JoinedText(user)), 0)

\* webrtc.onPeerLeave: state.peers[userId], a property lookup by name.
onPeerLeave(W, a, userId) ==
  LET hit == {r \in W.state[a].peers : Dec(r.key) = << userId >>}
  IN IF hit = {} THEN W
     ELSE LET r == CHOOSE x \in hit : TRUE
              W1 == Show(W, "system", "", << r.user.name, " disconnected." >>)
          IN [W1 EXCEPT !.state[a].peers = @ \ hit]

\* webrtc.onConnected
onConnected(W, a) ==
  LET W1 == [W EXCEPT !.state[a].isConnected = TRUE]
      W2 == Show(W1, "system", "", << "Connected!" >>)
  IN send(W2, a, IdentityEnv(UserOf(a)))

\* webrtc.onDisconnected
onDisconnected(W, a) ==
  Show([W EXCEPT !.state[a].isConnected = FALSE], "toast", "",
       << "Disconnected from host" >>)

\* webrtc.onIdentityRequest
onIdentityRequest(W, a) == send(W, a, IdentityEnv(UserOf(a)))

\* handleMessage with no case for "kick".
handleMessageNoKick(W, a, from, msg, now) ==
  LET cb == W.webrtc[a].cb
  IN IF msg.type = "identity" THEN
       (IF cb THEN onPeerJoin(W, a, msg.user, now) ELSE W)
     ELSE IF msg.type \in {"chat", "system"} THEN
       (IF cb THEN onMessage(W, a, from, msg) ELSE W)
     ELSE IF msg.type = "req-identity" THEN
       (IF cb THEN onIdentityRequest(W, a) ELSE W)
     ELSE IF msg.type = "close" THEN
       Reload(Show(cleanup(W, a), "alert", "", << "Host ended the session" >>), a)
     ELSE IF msg.type = "leave" THEN
       (IF cb THEN onPeerLeave(W, a, msg.userId) ELSE W)
     ELSE W

\* handleMessage with a default case that ends the session.
handleMessageDefaultFatal(W, a, from, msg, now) ==
  LET cb == W.webrtc[a].cb
  IN IF msg.type = "identity" THEN
       (IF cb THEN onPeerJoin(W, a, msg.user, now) ELSE W)
     ELSE IF msg.type \in {"chat", "system"} THEN
       (IF cb THEN onMessage(W, a, from, msg) ELSE W)
     ELSE IF msg.type = "req-identity" THEN
       (IF cb THEN onIdentityRequest(W, a) ELSE W)
     ELSE IF msg.type = "leave" THEN
       (IF cb THEN onPeerLeave(W, a, msg.userId) ELSE W)
     ELSE IF msg.type = "kick" THEN
       Reload(Show(cleanup(W, a), "alert", "", << "You were removed from the group" >>), a)
     ELSE Reload(Show(cleanup(W, a), "alert", "", << "Host ended the session" >>), a)

\* WebRTCManager.handleMessage(msg) on the manager of device a; from is the
\* channel whose onmessage called it, now is Date.now().
handleMessage(W, a, from, msg, now) ==
  LET cb == W.webrtc[a].cb
  IN IF msg.type = "identity" THEN
       (IF cb THEN onPeerJoin(W, a, msg.user, now) ELSE W)
     ELSE IF msg.type \in {"chat", "system"} THEN
       (IF cb THEN onMessage(W, a, from, msg) ELSE W)
     ELSE IF msg.type = "req-identity" THEN
       (IF cb THEN onIdentityRequest(W, a) ELSE W)
     ELSE IF msg.type = "close" THEN
       Reload(Show(cleanup(W, a), "alert", "", << "Host ended the session" >>), a)
     ELSE IF msg.type = "leave" THEN
       (IF cb THEN onPeerLeave(W, a, msg.userId) ELSE W)
     ELSE IF msg.type = "kick" THEN
       Reload(Show(cleanup(W, a), "alert", "", << "You were removed from the group" >>), a)
     ELSE W

\* channel.onopen (setupChannelHandlers) of channel c on device a.
onopen(W, a, c) ==
  LET W1 == IF W.webrtc[a].cb THEN onConnected(W, a) ELSE W
  IN RawSend(W1, c, ReqIdentityEnv)

\* channel.onclose (setupChannelHandlers)
onclose(W, a) == IF W.webrtc[a].cb THEN onDisconnected(W, a) ELSE W

\* ------------------------------------------------- negotiation (manager)
\* The number the next connection created on device a gets (0: none left).
NextPC(P, a) ==
  LET free == {p \in SlotsOf(a) : ~P[p].made}
  IN IF free = {} THEN 0 ELSE CHOOSE p \in free : \A q \in free : p <= q

\* WebRTCManager.createOffer(): the state it leaves; it resolves to
\* OfferToken of the new connection.
createOffer(W, a) ==
  LET p == NextPC(W.pcs, a)
      pc == [NewPC(a, TRUE) EXCEPT !.chan = "connecting", !.ice = TRUE,
                                   !.local = Desc("offer", p, FALSE)]
  IN [W EXCEPT !.webrtc[a] = [@ EXCEPT !.isHost = TRUE, !.localPC = p, !.channel = p],
               !.pcs[p] = pc]

\* The token createOffer/createAnswer return: the description as it was when
\* setLocalDescription was called, before any candidate was gathered.
ReturnedToken(P, p) == TokenOf[P[p].local.type, p, FALSE]

\* WebRTCManager.handleAnswer(answerData)
handleAnswer(W, a, data) ==
  LET m == W.webrtc[a]
      answer == Decoded[data]
  IN IF m.localPC = 0 THEN [W EXCEPT !.err = "No local peer connection"]
     ELSE IF answer.kind = "error" THEN [W EXCEPT !.err = "SyntaxError"]
     ELSE IF ~SetRemoteOk(W.pcs, m.localPC, answer)
          THEN [W EXCEPT !.err = "setRemoteDescription"]
     ELSE [W EXCEPT !.pcs = SetRemote(@, m.localPC, answer)]

\* WebRTCManager.createAnswer(offerData)
createAnswer(W, a, data) ==
  LET p == NextPC(W.pcs, a)
      W1 == [W EXCEPT !.webrtc[a] = [@ EXCEPT !.isHost = FALSE, !.localPC = p],
                      !.pcs[p] = NewPC(a, FALSE)]
      offer == Decoded[data]
  IN IF offer.kind = "error" THEN [W1 EXCEPT !.err = "SyntaxError"]
     ELSE IF ~SetRemoteOk(W1.pcs, p, offer)
          THEN [W1 EXCEPT !.err = "setRemoteDescription"]
     ELSE [W1 EXCEPT !.pcs = [SetRemote(@, p, offer) EXCEPT
                                ![p].local = Desc("answer", p, FALSE),
                                ![p].ice = TRUE]]

\* if (!webrtc) { webrtc = new WebRTCManager(); setupWebRTCHandlers(); }
EnsureManager(W, a) ==
  IF W.webrtc[a].exists THEN W
  ELSE [W EXCEPT !.webrtc[a] = [NewManager EXCEPT !.cb = TRUE]]

\* window.showInviteModal: createOffer, then webrtc.on(...), which
\* WebRTCManager does not define: the call raises a TypeError and the rest of
\* the function (the listener that draws the QR code) never runs.
showInviteModal(W, a) ==
  LET W1 == createOffer(EnsureManager(W, a), a)
  IN [W1 EXCEPT !.err = "TypeError: webrtc.on is not a function"]

\* catch (error) { showToast('Invalid connection code') }
Caught(W) == Show([W EXCEPT !.err = ""], "toast", "", << "Invalid connection code" >>)

\* handleScan(data, hostPC); hostPC is TRUE for the manager, FALSE for null.
handleScan(W, a, data, hostPC) ==
  LET signal == Decoded[data]
  IN IF signal.kind = "error" THEN Caught(W)
     ELSE IF W.state[a].isHost /\ hostPC THEN
       LET W1 == handleAnswer(W, a, data)
       IN IF W1.err # "" THEN Caught(W1)
          ELSE Show(W1, "system", "", << "Guest connected!" >>)
     ELSE IF ~W.state[a].isHost THEN
       LET W1 == createAnswer(EnsureManager(W, a), a, data)
       IN IF W1.err # "" THEN Caught(W1)
          ELSE [W1 EXCEPT !.qr[a] = ReturnedToken(W1.pcs, W1.webrtc[a].localPC)]
     ELSE W

\* window.handleManualCode with a code typed, through
\* QRScanner.handleManualCode: onScan (handleScan) is awaited inside try, the
\* result is success unless it throws, and a failure is shown as a toast.
handleManualCode(W, a, code, hostPC) ==
  LET W1 == handleScan(W, a, code, hostPC)
  IN IF W1.err = "" THEN W1
     ELSE Show([W1 EXCEPT !.err = ""], "toast", "", << "Invalid connection code" >>)

\* result.success of QRScanner.handleManualCode
ManualResult(W, a, code, hostPC) ==
  IF handleScan(W, a, code, hostPC).err = "" THEN "success" ELSE "failure"

\* window.sendMessage with the text "hi" typed.
sendMessage(W, a) ==
  LET W1 == Show(W, "mine", UserOf(a).name, HiText)
      msg == ChatEnv(HiText, UserOf(a))
  IN IF W.state[a].isHost THEN broadcastMessage(W1, a, msg, 0)
     ELSE IF W.webrtc[a].exists /\ W.webrtc[a].channel # 0 THEN send(W1, a, msg)
     ELSE W1

\* window.sendMessage from its first line: nothing happens unless
\* state.isConnected.
sendMessageTapped(W, a) ==
  IF ~W.state[a].isConnected THEN W ELSE sendMessage(W, a)

\* window.kickPeer(id)
kickPeer(W, a, key) ==
  LET hit == {r \in W.state[a].peers : r.key = key}
  IN IF hit = {} THEN W
     ELSE LET r == CHOOSE x \in hit : TRUE
              W1 == IF r.chan = 0 THEN W ELSE RawSend(W, r.chan, KickEnv)
          IN IF W1.err # "" THEN W1
             ELSE [W1 EXCEPT !.pcs = IF r.chan = 0 THEN @ ELSE ChannelClose(@, r.chan),
                             !.state[a].peers = @ \ hit]

\* window.confirmExit, confirmed; cleanupAndReload.
confirmExit(W, a) ==
  LET W1 == IF W.state[a].isHost THEN broadcastMessage(W, a, CloseEnv, 0)
            ELSE IF W.webrtc[a].exists THEN send(W, a, LeaveEnv(UserOf(a).id))
            ELSE W
      W2 == IF W1.webrtc[a].exists THEN destroy(W1, a) ELSE W1
  IN Reload(W2, a)

\* ------------------------------------------------------------------ steps
\* Frames that reached a channel which no longer receives are discarded.
Settled(W) ==
  [p \in PCs |-> IF Receiving(W.pcs, p) THEN W.inbox[p] ELSE << >>]

\* One handler ran to its end (or raised): its effects become the new state.
Commit(W, op, a, p, env, ret, data) ==
  /\ state' = W.state
  /\ webrtc' = W.webrtc
  /\ pcs' = W.pcs
  /\ inbox' = Settled(W)
  /\ store' = W.store
  /\ qr' = W.qr
  /\ clk' = W.clk
  /\ ev' = [op |-> op, app |-> a, pc |-> p, env |-> env, sent |-> W.sent,
            shown |-> W.shown, logged |-> W.logged, err |-> W.err, ret |-> ret,
            data |-> data]
  /\ UNCHANGED << codec, bus >>

\* What the out-of-band channel can carry to a guest's scanner: the token of
\* the full local description of a live offering connection. This is the
\* description emit('localDescriptionReady', ...) publishes in window.store,
\* and the token the listener of showInviteModal is written to draw.
OfferTexts ==
  {TokenOf["offer", p, TRUE] :
     p \in {q \in PCs : ~pcs[q].closed /\ pcs[q].offerer /\ pcs[q].gathered}}

\* What the host's scanner can read: the tokens on the guests' QR canvases.
AnswerTexts == {qr[g] : g \in {x \in Guests : qr[x] # << >>}}

\* Connections whose candidate gathering is under way.
Gathering ==
  {p \in PCs : ~pcs[p].closed /\ pcs[p].ice /\ ~pcs[p].gathered
                         /\ pcs[p].local.kind = "object"}

\* Date.now() read by a handler: the clock has advanced or not.
NowSet(a) == {clk[a]} \cup (IF clk[a] < MaxClock THEN {clk[a] + 1} ELSE {})

\* window.initHost
InitHost(a) ==
  /\ state[a].currentScreen = "lobby"
  /\ Commit(Show([World EXCEPT !.state[a] = [@ EXCEPT !.isHost = TRUE,
                                                 !.isConnected = TRUE,
                                                 !.peers = {},
                                                 !.currentScreen = "chat"]],
                 "system", "", << "Group created." >>),
            "initHost", a, 0, NoEnv, "", << >>)
  /\ UNCHANGED chats

\* window.initJoin; startScanner() creates the scanner with hostPC = null.
InitJoin(a) ==
  /\ state[a].currentScreen = "lobby"
  /\ Commit([World EXCEPT !.state[a] = [@ EXCEPT !.isHost = FALSE,
                                            !.isConnected = FALSE,
                                            !.currentScreen = "chat",
                                            !.scanner = TRUE]],
            "initJoin", a, 0, NoEnv, "", << >>)
  /\ UNCHANGED chats

\* The host taps "add member".
ShowInviteModal(a) ==
  /\ state[a].isHost /\ state[a].currentScreen = "chat"
  /\ NextPC(pcs, a) # 0
  /\ LET W == showInviteModal(World, a)
     IN Commit(W, "showInviteModal", a, W.webrtc[a].localPC, NoEnv,
               "", ReturnedToken(W.pcs, W.webrtc[a].localPC))
  /\ UNCHANGED chats

\* The guest's scanner (or manual entry) delivers a text: handleScan(data, null).
HandleScanGuest(a, data) ==
  /\ state[a].scanner /\ ~state[a].isHost
  /\ NextPC(pcs, a) # 0
  /\ Commit(handleScan(World, a, data, FALSE), "handleScan", a, 0, NoEnv, "", data)
  /\ UNCHANGED chats

\* The guest types a code in the manual-entry field and submits it.
HandleManualCode(a, data) ==
  /\ state[a].scanner /\ ~state[a].isHost
  /\ NextPC(pcs, a) # 0
  /\ Commit(handleManualCode(World, a, data, FALSE), "handleManualCode", a, 0, NoEnv,
            ManualResult(World, a, data, FALSE), data)
  /\ UNCHANGED chats

\* The host's scanner, started by window.startScanner(webrtc), delivers a
\* text: handleScan(data, webrtc).
HandleScanHost(a, data) ==
  /\ state[a].isHost /\ webrtc[a].exists
  /\ Commit(handleScan(World, a, data, TRUE), "handleScan", a, webrtc[a].localPC,
            NoEnv, "", data)
  /\ UNCHANGED chats

\* The user types "hi" and taps send.
SendMessage(a) ==
  /\ state[a].currentScreen = "chat" /\ state[a].isConnected
  /\ chats < MaxChats
  /\ chats' = chats + 1
  /\ Commit(sendMessage(World, a), "sendMessage", a, 0, ChatEnv(HiText, UserOf(a)),
            "", << >>)

\* The host taps "Kick" on a participant.
KickPeer(a, key) ==
  /\ state[a].isHost
  /\ \E r \in state[a].peers : r.key = key
  /\ Commit(kickPeer(World, a, key), "kickPeer", a,
            (CHOOSE r \in state[a].peers : r.key = key).chan, KickEnv, "", << >>)
  /\ UNCHANGED chats

\* The user leaves the group and confirms.
ConfirmExit(a) ==
  /\ state[a].currentScreen = "chat"
  /\ Commit(confirmExit(World, a), "confirmExit", a, 0, NoEnv, "", << >>)
  /\ UNCHANGED chats

\* The page of device a sends an envelope of another protocol version:
\* webrtc.send('ping', {}). One such envelope is in flight at a time.
SendUnknown(a) ==
  /\ webrtc[a].exists /\ sendAccepted(World, a)
  /\ \A p \in PCs : \A i \in 1..Len(inbox[p]) : inbox[p][i] # UnknownEnv
  /\ LET W == send(World, a, UnknownEnv)
     IN Commit(W, "send", a, webrtc[a].channel, UnknownEnv, sendReturns(World, W, a),
               << >>)
  /\ UNCHANGED chats

\* localPC.onicecandidate with event.candidate null, on the manager of
\* device a. The handler reads this.localPC of the manager, whichever
\* connection fired.
onicecandidate(W, a) ==
  IF W.webrtc[a].localPC = 0
  THEN [W EXCEPT !.err = "TypeError: this.localPC is null"]
  ELSE emit(W, a, "localDescriptionReady")

\* Whether a handler run published the local description.
Emitted(W) == IF W.err = "" THEN "emitted" ELSE ""

\* Gathering of p is complete: the first end-of-candidates event.
IceComplete(p) ==
  /\ ~pcs[p].closed /\ pcs[p].ice /\ ~pcs[p].gathered
  /\ pcs[p].local.kind = "object"
  /\ LET a == pcs[p].owner
         W == onicecandidate([World EXCEPT !.pcs[p].gathered = TRUE,
                                           !.pcs[p].ends = 1], a)
     IN Commit(W, "onicecandidate", a, p, NoEnv, Emitted(W), << >>)
  /\ UNCHANGED chats

\* The transport of p delivers a further end-of-candidates event (gathering
\* resumed and completed again).
IceAgain(p) ==
  /\ ~pcs[p].closed /\ pcs[p].gathered
  /\ pcs[p].ends = 1
  /\ Cardinality({q \in PCs : pcs[q].ends > 1}) < MaxIceAgain
  /\ LET a == pcs[p].owner
         W == onicecandidate([World EXCEPT !.pcs[p].ends = @ + 1], a)
     IN Commit(W, "onicecandidate", a, p, NoEnv, Emitted(W), << >>)
  /\ UNCHANGED chats

Connectable(p, q) ==
  /\ q # 0 /\ ~pcs[p].closed /\ ~pcs[q].closed
  /\ IF pcs[p].offerer THEN IceCanConnect(pcs, p, q) ELSE IceCanConnect(pcs, q, p)

\* The channel created by createOffer opens: channel.onopen.
CanOpen(p) ==
  /\ pcs[p].offerer /\ pcs[p].chan = "connecting"
  /\ Connectable(p, PeerOf(pcs, p))

ChannelOpens(p) ==
  /\ CanOpen(p)
  /\ Commit(onopen([World EXCEPT !.pcs[p].chan = "open"], pcs[p].owner, p),
            "onopen", pcs[p].owner, p, NoEnv, "", << >>)
  /\ UNCHANGED chats

CanArrive(p) ==
  /\ ~pcs[p].offerer /\ pcs[p].chan = "none"
  /\ Connectable(p, PeerOf(pcs, p))
  /\ pcs[PeerOf(pcs, p)].chan \in {"connecting", "open"}

\* localPC.ondatachannel on the answering side, then the channel's onopen.
DataChannelArrives(p) ==
  /\ CanArrive(p)
  /\ LET a == pcs[p].owner
         W1 == [World EXCEPT !.pcs[p].chan = "open", !.webrtc[a].channel = p]
     IN Commit(onopen(emit(W1, a, "connected"), a, p),
               "ondatachannel", a, p, NoEnv, "", << >>)
  /\ UNCHANGED chats

\* channel.onmessage: the oldest undelivered frame of channel p is dispatched.
CanDeliver(p) ==
  /\ ~pcs[p].closed /\ pcs[p].chan = "open"
  /\ inbox[p] # << >>

Deliver(p) ==
  /\ CanDeliver(p)
  /\ LET a == pcs[p].owner
         msg == Head(inbox[p])
         W1 == [World EXCEPT !.inbox[p] = Tail(@)]
     IN \E now \in (IF msg.type = "identity" THEN NowSet(a) ELSE {clk[a]}) :
          Commit(handleMessage(W1, a, p, msg, now), "onmessage", a, p, msg, "", << >>)
  /\ UNCHANGED chats

\* The far end of channel p went away: channel.onclose.
RemoteClosed(p) ==
  /\ ~pcs[p].closed /\ pcs[p].chan = "open"
  /\ LET q == PeerOf(pcs, p)
     IN q # 0 /\ (pcs[q].closed \/ pcs[q].chan \in {"closing", "closed"})
  /\ Commit(onclose([World EXCEPT !.pcs[p].chan = "closed"], pcs[p].owner),
            "onclose", pcs[p].owner, p, NoEnv, "", << >>)
  /\ UNCHANGED chats

\* A channel this side closed finishes closing: channel.onclose.
LocalClosed(p) ==
  /\ ~pcs[p].closed /\ pcs[p].chan = "closing"
  /\ Commit(onclose([World EXCEPT !.pcs[p].chan = "closed"], pcs[p].owner),
            "onclose", pcs[p].owner, p, NoEnv, "", << >>)
  /\ UNCHANGED chats

\* ------------------------------------------------- the link, driven directly
\* The devices whose WebRTCManager is driven through its own methods.
LinkApps == {Host, GuestIds[1]}

\* Texts handed to createAnswer and handleAnswer: tokens of the descriptions
\* published by emit('localDescriptionReady', ...), and texts that are no
\* token.
LinkTexts ==
  {TokenOf[pcs[p].local.type, p, TRUE] :
     p \in {q \in PCs : ~pcs[q].closed /\ pcs[q].gathered}} \cup Garbage

\* new WebRTCManager(): no callback is set.
LinkNew(a) ==
  /\ ~webrtc[a].exists
  /\ state[a].currentScreen = "lobby"
  /\ Commit([World EXCEPT !.webrtc[a] = NewManager], "new", a, 0, NoEnv, "", << >>)
  /\ UNCHANGED chats

\* webrtc = new WebRTCManager(); setupWebRTCHandlers(): the six callbacks
\* of the page are assigned to the new manager.
LinkNewWithHandlers(a) ==
  /\ ~webrtc[a].exists
  /\ state[a].currentScreen = "lobby"
  /\ Commit([World EXCEPT !.webrtc[a] = [NewManager EXCEPT !.cb = TRUE]],
            "new", a, 0, NoEnv, "", << >>)
  /\ UNCHANGED chats

LinkCreateOffer(a) ==
  /\ webrtc[a].exists
  /\ NextPC(pcs, a) # 0
  /\ LET W == createOffer(World, a)
     IN Commit(W, "createOffer", a, W.webrtc[a].localPC, NoEnv, "",
               ReturnedToken(W.pcs, W.webrtc[a].localPC))
  /\ UNCHANGED chats

LinkCreateAnswer(a, data) ==
  /\ webrtc[a].exists
  /\ NextPC(pcs, a) # 0
  /\ LET W == createAnswer(World, a, data)
     IN Commit(W, "createAnswer", a, W.webrtc[a].localPC, NoEnv, "", data)
  /\ UNCHANGED chats

LinkHandleAnswer(a, data) ==
  /\ webrtc[a].exists
  /\ Commit(handleAnswer(World, a, data), "handleAnswer", a, webrtc[a].localPC,
            NoEnv, "", data)
  /\ UNCHANGED chats

\* send(type, payload) with type 'chat' or 'kick': the transport takes the
\* frame, or refuses it.
LinkSend(a, type, refuse) ==
  /\ webrtc[a].exists
  /\ chats < MaxChats
  /\ chats' = chats + 1
  /\ LET env == IF type = "kick" THEN KickEnv ELSE ChatEnv(HiText, UserOf(a))
         W == send([World EXCEPT !.refuse = refuse], a, env)
     IN Commit(W, "send", a, webrtc[a].channel, env, sendReturns(World, W, a), << >>)

LinkCleanup(a) ==
  /\ webrtc[a].exists
  /\ Commit(cleanup(World, a), "cleanup", a, webrtc[a].localPC, NoEnv, "", << >>)
  /\ UNCHANGED chats

LinkDestroy(a) ==
  /\ webrtc[a].exists
  /\ Commit(destroy(World, a), "destroy", a, webrtc[a].localPC, NoEnv, "", << >>)
  /\ UNCHANGED chats

\* Guests that have left the lobby.
Joined == {g \in Guests : state[g].currentScreen # "lobby"}

\* rtcConfig.iceServers is empty, so gathering needs no network round trip:
\* it completes before the next user action or network event.
Gathered == Gathering = {}

\* No connection event is pending.
Quiet ==
  /\ Gathered
  /\ \A p \in PCs : ~CanOpen(p) /\ ~CanArrive(p) /\ ~CanDeliver(p)

\* The one-to-one session: the host and the guests that join (MaxJoins of
\* them), every interleaving of user actions and connection events,
\* participants removed and leaving included.
Next ==
  \/ \E p \in PCs : IceComplete(p)
  \/ Gathered /\ InitHost(Host)
  \/ \E a \in Guests : Gathered /\ Cardinality(Joined) < MaxJoins /\ InitJoin(a)
  \/ Gathered /\ ShowInviteModal(Host)
  \/ \E a \in Guests : \E data \in OfferTexts : Gathered /\ HandleScanGuest(a, data)
  \/ \E a \in Guests : \E data \in OfferTexts \cup Garbage :
       Gathered /\ HandleManualCode(a, data)
  \/ \E data \in AnswerTexts : Gathered /\ HandleScanHost(Host, data)
  \/ \E a \in Apps : Gathered /\ SendMessage(a)
  \/ \E key \in 1..MaxClock : Gathered /\ KickPeer(Host, key)
  \/ \E a \in Apps : Gathered /\ ConfirmExit(a)
  \/ \E p \in PCs : Gathered /\ ChannelOpens(p)
  \/ \E p \in PCs : Gathered /\ DataChannelArrives(p)
  \/ \E p \in PCs : Gathered /\ Deliver(p)
  \/ \E p \in PCs : Gathered /\ RemoteClosed(p)
  \/ \E p \in PCs : Gathered /\ LocalClosed(p)

Spec == Init /\ [][Next]_vars

\* The group: the host and all the guests, nobody leaving. The devices share
\* one local network, so connection events are handled before the next user
\* action (users act on a network at rest).
NextGroup ==
  \/ \E p \in PCs : IceComplete(p)
  \/ Quiet /\ InitHost(Host)
  \/ \E a \in Guests : Quiet /\ InitJoin(a)
  \/ Quiet /\ ShowInviteModal(Host)
  \/ \E a \in Guests : \E data \in OfferTexts : Quiet /\ HandleScanGuest(a, data)
  \/ \E data \in AnswerTexts : Quiet /\ HandleScanHost(Host, data)
  \/ \E a \in Apps : Quiet /\ SendMessage(a)
  \/ \E a \in Apps : Quiet /\ SendUnknown(a)
  \/ \E p \in PCs : Gathered /\ ChannelOpens(p)
  \/ \E p \in PCs : Gathered /\ DataChannelArrives(p)
  \/ \E p \in PCs : Gathered /\ Deliver(p)

SpecGroup == Init /\ [][NextGroup]_vars

\* The group with guests that leave: the host and all the guests on one
\* local network; a guest may leave, and its channels then close.
NextDrop ==
  \/ \E p \in PCs : IceComplete(p)
  \/ Quiet /\ InitHost(Host)
  \/ \E a \in Guests : Quiet /\ InitJoin(a)
  \/ Quiet /\ ShowInviteModal(Host)
  \/ \E a \in Guests : \E data \in OfferTexts : Quiet /\ HandleScanGuest(a, data)
  \/ \E data \in AnswerTexts : Quiet /\ HandleScanHost(Host, data)
  \/ \E a \in Apps : Quiet /\ SendMessage(a)
  \/ \E a \in Guests : Quiet /\ ConfirmExit(a)
  \/ \E p \in PCs : Gathered /\ ChannelOpens(p)
  \/ \E p \in PCs : Gathered /\ DataChannelArrives(p)
  \/ \E p \in PCs : Gathered /\ Deliver(p)
  \/ \E p \in PCs : Gathered /\ RemoteClosed(p)

SpecDrop == Init /\ [][NextDrop]_vars

\* The link: managers driven through their methods, in any order.
NextLink ==
  \/ \E p \in PCs : IceComplete(p)
  \/ \E a \in LinkApps : Gathered /\ LinkNew(a)
  \/ \E a \in LinkApps : Gathered /\ LinkCreateOffer(a)
  \/ \E a \in LinkApps : \E data \in LinkTexts : Gathered /\ LinkCreateAnswer(a, data)
  \/ \E a \in LinkApps : \E data \in LinkTexts : Gathered /\ LinkHandleAnswer(a, data)
  \/ \E a \in LinkApps : \E type \in {"chat", "kick"} : \E refuse \in BOOLEAN :
       Gathered /\ LinkSend(a, type, refuse)
  \/ \E a \in LinkApps : Gathered /\ LinkCleanup(a)
  \/ \E a \in LinkApps : Gathered /\ LinkDestroy(a)
  \/ \E p \in PCs : Gathered /\ ChannelOpens(p)
  \/ \E p \in PCs : Gathered /\ DataChannelArrives(p)
  \/ \E p \in PCs : Gathered /\ Deliver(p)
  \/ \E p \in PCs : Gathered /\ RemoteClosed(p)
  \/ \E p \in PCs : Gathered /\ LocalClosed(p)

SpecLink == Init /\ [][NextLink]_vars

\* The link with the page's callbacks assigned: managers that carry the
\* handlers of setupWebRTCHandlers, driven through their methods in any
\* order, destroy() included, with the channel events that follow.
NextLate ==
  \/ \E p \in PCs : IceComplete(p)
  \/ \E a \in LinkApps : Gathered /\ LinkNewWithHandlers(a)
  \/ \E a \in LinkApps : Gathered /\ LinkCreateOffer(a)
  \/ \E a \in LinkApps : \E data \in OfferTexts : Gathered /\ LinkCreateAnswer(a, data)
  \/ \E a \in LinkApps : \E data \in LinkTexts \ (OfferTexts \cup Garbage) :
       Gathered /\ LinkHandleAnswer(a, data)
  \/ \E a \in LinkApps : \E type \in {"chat", "kick"} :
       Gathered /\ LinkSend(a, type, FALSE)
  \/ \E a \in LinkApps : Gathered /\ LinkDestroy(a)
  \/ \E p \in PCs : Gathered /\ ChannelOpens(p)
  \/ \E p \in PCs : Gathered /\ DataChannelArrives(p)
  \/ \E p \in PCs : Gathered /\ Deliver(p)
  \/ \E p \in PCs : Gathered /\ RemoteClosed(p)
  \/ \E p \in PCs : Gathered /\ LocalClosed(p)

SpecLate == Init /\ [][NextLate]_vars

\* Negotiation: managers driven through createOffer, createAnswer,
\* handleAnswer and cleanup in any order; a caller need not wait for
\* gathering before its next call.
NextNegotiation ==
  \/ \E p \in PCs : IceComplete(p)
  \/ \E p \in PCs : IceAgain(p)
  \/ \E a \in LinkApps : LinkNew(a)
  \/ \E a \in LinkApps : LinkCreateOffer(a)
  \/ \E a \in LinkApps : \E data \in LinkTexts : LinkCreateAnswer(a, data)
  \/ \E a \in LinkApps : \E data \in LinkTexts : LinkHandleAnswer(a, data)
  \/ \E a \in LinkApps : LinkCleanup(a)

SpecNegotiation == Init /\ [][NextNegotiation]_vars

\* ------------------------------------------------------ the codec alone
\* The characters of the sdp bodies drawn: a plain one and the three that
\* JSON.stringify escapes.
CodecChars == {"a", "\"", "\\", LF}

RECURSIVE SeqsUpTo(_, _)
SeqsUpTo(S, n) ==
  IF n = 0 THEN {<< >>}
  ELSE LET shorter == SeqsUpTo(S, n - 1)
       IN shorter \cup {Append(x, c) : x \in {y \in shorter : Len(y) = n - 1}, c \in S}

\* The valid descriptors drawn: {type, sdp} with type offer or answer.
CodecDescs ==
  {[kind |-> "object", type |-> t, sdp |-> b] :
     t \in {"offer", "answer"}, b \in SeqsUpTo(CodecChars, MaxSdpLen)}

InitCodec ==
  /\ AppInit /\ bus = NewStore
  /\ codec \in {[CodecIdle EXCEPT !.phase = "input", !.desc = d] : d \in CodecDescs}

\* data = compressDescription(desc)
CodecEncode ==
  /\ codec.phase = "input"
  /\ codec' = [codec EXCEPT !.phase = "encoded", !.token = compressDescription(codec.desc)]
  /\ UNCHANGED << state, webrtc, pcs, inbox, store, qr, clk, chats, ev, bus >>

\* decompressDescription(data)
CodecDecode ==
  /\ codec.phase = "encoded"
  /\ codec' = [codec EXCEPT !.phase = "decoded",
                            !.result = decompressDescription(codec.token)]
  /\ UNCHANGED << state, webrtc, pcs, inbox, store, qr, clk, chats, ev, bus >>

NextCodec == CodecEncode \/ CodecDecode

SpecCodec == InitCodec /\ [][NextCodec]_vars

\* ------------------------------------------------------- the store alone
\* The update objects drawn: one key, or both keys in either order.
StoreUpdates ==
  {<< << k, v >> >> : k \in StoreKeys, v \in 0..MaxVal}
  \cup {<< << p[1], v >>, << p[2], w >> >> :
          p \in {q \in StoreKeys \X StoreKeys : q[1] # q[2]},
          v \in 0..MaxVal, w \in 0..MaxVal}

\* The store with the record of the last setState call dropped.
Forgotten(B) ==
  [B EXCEPT !.log = << >>, !.start = NewStore.start, !.prev = NewStore.prev,
            !.updates = << >>]

\* The number of subscriptions the store holds.
SubCount ==
  Len(bus.listeners["update"]) + Len(bus.listeners["a:change"])
    + Len(bus.listeners["b:change"])

\* store.on(event, callback), a callback not yet subscribed to the event.
On(event, cb) ==
  /\ SubCount < MaxSubs
  /\ IndexOf(bus.listeners[event], cb) = 0
  /\ bus' = [StoreOn(Forgotten(bus), event, cb) EXCEPT !.op = "on"]
  /\ UNCHANGED << state, webrtc, pcs, inbox, store, qr, clk, chats, ev, codec >>

\* store.off(event, callback), or the function on returned.
Off(event, cb) ==
  /\ IndexOf(bus.listeners[event], cb) # 0
  /\ bus' = [StoreOff(Forgotten(bus), event, cb) EXCEPT !.op = "off"]
  /\ UNCHANGED << state, webrtc, pcs, inbox, store, qr, clk, chats, ev, codec >>

\* store.setState(updates)
SetState(updates) ==
  /\ bus' = StoreSetState(bus, updates)
  /\ UNCHANGED << state, webrtc, pcs, inbox, store, qr, clk, chats, ev, codec >>

NextStore ==
  \/ \E event \in StoreEvents : \E cb \in Callbacks : On(event, cb)
  \/ \E event \in StoreEvents : \E cb \in Callbacks : Off(event, cb)
  \/ \E updates \in StoreUpdates : SetState(updates)

SpecStore == Init /\ [][NextStore]_vars

\* --------------------------------------------------------------- properties
\* The frames of a handler's sends that went out on channel c carrying env.
SentOn(c, env) == {i \in 1..Len(ev.sent) : ev.sent[i].pc = c /\ ev.sent[i].env = env}

\* The host's open channels whose far end is device g.
OpenLinksTo(g) ==
  {p \in SlotsOf(Host) :
     /\ ~pcs[p].closed /\ pcs[p].chan = "open"
     /\ PeerOf(pcs, p) # 0 /\ pcs[PeerOf(pcs, p)].owner = g}

Registered(a, g) == \E r \in state[a].peers : r.user.id = g

\* The host has just dispatched a chat or system envelope that came in on ev.pc.
HostReceived ==
  /\ ev.op = "onmessage" /\ ev.app = Host /\ state[Host].isHost
  /\ ev.env.type \in {"chat", "system"}

\* C1 (relay delivery): when the host, with the author and other guests in
\* its registry on open channels, has dispatched a chat or system envelope
\* from a guest, it has surfaced the envelope and sent that same envelope
\* exactly once to each of the other registered guests.
C1_RelayDelivery ==
  HostReceived /\ Registered(Host, ev.env.user.id) =>
    /\ ev.shown # << >>
    /\ \A g \in Guests \ {ev.env.user.id} :
         Registered(Host, g) /\ OpenLinksTo(g) # {} =>
           Cardinality(UNION {SentOn(p, ev.env) : p \in OpenLinksTo(g)}) = 1

\* C2 (no echo): the host, having dispatched a chat or system envelope that
\* came in on a peer's link, has not sent that envelope out on that link.
C2_NoEcho == HostReceived => SentOn(ev.pc, ev.env) = {}

\* C2's case: the host dispatched a guest's chat while the guest stood in the
\* registry with the very channel the chat came in on, still open.
C2_Witness ==
  /\ HostReceived /\ ev.env.type = "chat" /\ ev.shown # << >>
  /\ pcs[ev.pc].chan = "open"
  /\ \E r \in state[Host].peers : r.chan = ev.pc /\ r.user.id = ev.env.user.id

\* C3 (end-to-end handshake through the application): showInviteModal runs
\* to its end, and once the host's offer is complete its token stands on
\* the host's QR canvas for the guest to scan.
C3_Handshake ==
  /\ (ev.op = "showInviteModal" => ev.err = "")
  /\ \A p \in SlotsOf(Host) :
       (webrtc[Host].localPC = p /\ pcs[p].offerer /\ pcs[p].gathered)
         => qr[Host] = TokenOf["offer", p, TRUE]

\* C4 (guest cardinality): a guest session's registry holds at most one entry.
C4_GuestCardinality ==
  \A g \in Guests : ~state[g].isHost => Cardinality(state[g].peers) <= 1

\* C5 (identity idempotence): after an identity envelope has been dispatched,
\* the registry holds exactly one record for its user, with the profile
\* received.
C5_IdentityIdempotence ==
  (ev.op = "onmessage" /\ ev.env.type = "identity" /\ webrtc[ev.app].exists) =>
    /\ Cardinality({r \in state[ev.app].peers : r.user.id = ev.env.user.id}) = 1
    /\ \A r \in state[ev.app].peers : r.user.id = ev.env.user.id => r.user = ev.env.user

\* A page that was reloaded (the session of device a has ended).
Ended(a) == state[a].currentScreen = "login"

\* C6 (kick): a guest that has dispatched a kick envelope has closed its
\* channel and connection, holds an empty registry and has sent nothing; and
\* a guest whose session ended holds no manager, no live connection and no
\* undelivered frame, so nothing is dispatched or sent by it afterwards.
C6_KickEndsSession ==
  /\ (ev.op = "onmessage" /\ ev.env.type = "kick") =>
       /\ Ended(ev.app)
       /\ state[ev.app].peers = {} /\ ~state[ev.app].isConnected
       /\ pcs[ev.pc].closed /\ pcs[ev.pc].chan = "closed"
       /\ ev.sent = << >>
  /\ \A g \in Guests : Ended(g) =>
       /\ state[g].peers = {}
       /\ ~webrtc[g].exists
       /\ \A p \in SlotsOf(g) : pcs[p].made => (pcs[p].closed /\ inbox[p] = << >>)
       /\ (ev.app = g => /\ ev.op \in {"onmessage", "confirmExit"}
                         /\ ev.op = "onmessage" => ev.env.type \in {"kick", "close"})

\* C6's case: a guest dispatched the kick envelope of the host.
C6_Witness ==
  /\ ev.op = "onmessage" /\ ev.env.type = "kick" /\ ev.app \in Guests
  /\ ~Registered(Host, ev.app)
  /\ \E p \in SlotsOf(Host) : pcs[p].rpc = ev.pc /\ pcs[p].chan \in {"closing", "closed"}

\* C7 (Closed is terminal): the step after a cleanup() or destroy() that
\* closed a link's connection, whatever that step is, leaves the link without
\* connection and channel.
C7_ClosedTerminal ==
  [][(ev.op \in {"cleanup", "destroy"} /\ ev.pc # 0) =>
       (webrtc'[ev.app].localPC = 0 /\ webrtc'[ev.app].channel = 0)]_vars

\* C8 (cleanup is idempotent): from every state, cleanup() raises nothing
\* and a second cleanup() leaves the state of the first.
C8_CleanupIdempotent ==
  /\ \A a \in LinkApps : webrtc[a].exists =>
       LET W1 == cleanup(World, a)
       IN W1.err = "" /\ cleanup(W1, a) = W1
  /\ (ev.op = "cleanup" => ev.err = "")

\* C8's case: cleanup() was called on a manager that holds no connection,
\* on a device whose connection had been closed before.
C8_Witness ==
  /\ ev.op = "cleanup" /\ ev.pc = 0 /\ ev.err = ""
  /\ \E p \in SlotsOf(ev.app) : pcs[p].made /\ pcs[p].closed

\* C9 (codec round trip): decompressDescription(compressDescription(D)) = D.
C9_RoundTrip == codec.phase = "decoded" => codec.result = codec.desc

\* C9's case: a descriptor of the longest body, with a character that
\* JSON.stringify escapes, went through both functions.
C9_Witness ==
  /\ codec.phase = "decoded"
  /\ Len(codec.desc.sdp) = MaxSdpLen
  /\ \E i \in 1..Len(codec.desc.sdp) : codec.desc.sdp[i] \in {"\"", "\\", LF}

\* C10 (send): send returns true or false and never raises; true means the
\* frame went out, false means nothing was sent.
C10_SendTotal ==
  ev.op = "send" =>
    /\ ev.err = ""
    /\ ev.ret \in {"true", "false"}
    /\ (ev.ret = "true") = (ev.sent # << >>)

\* C11 (createOffer only from Idle): a createOffer() on a link that already
\* holds a connection creates no new connection and channel and keeps the
\* ones the link holds.
C11_OfferOnlyWhenIdle ==
  [][\A a \in Apps :
       (/\ webrtc[a].exists /\ webrtc[a].localPC # 0
        /\ ev'.app = a /\ ev'.op \in {"createOffer", "showInviteModal"})
       => /\ webrtc'[a].localPC = webrtc[a].localPC
          /\ webrtc'[a].channel = webrtc[a].channel
          /\ \A p \in SlotsOf(a) : pcs'[p].made = pcs[p].made]_vars

\* C12 (handleAnswer only on a ready host link): a handleAnswer() applies a
\* remote description only to a connection of a host-role link whose own
\* offer is complete.
C12_AnswerOnlyWhenReady ==
  [][\A a \in LinkApps : \A p \in SlotsOf(a) :
       (/\ ev'.op = "handleAnswer" /\ ev'.app = a
        /\ pcs[p].remote.kind = "none" /\ pcs'[p].remote.kind = "object")
       => (webrtc[a].isHost /\ pcs[p].offerer /\ pcs[p].gathered)]_vars

\* C13 (self-contained tokens): a token drawn on a device's QR canvas
\* encodes a description that carries the candidates of its connection.
C13_SelfContainedTokens ==
  \A a \in Apps :
    qr[a] # << >> => (Decoded[qr[a]].kind = "object" /\ SdpCand(Decoded[qr[a]].sdp))

\* C14 (gathering completion is single-shot): a link publishes the local
\* description of a connection on the first end-of-candidates event only.
C14_SingleShot ==
  (ev.op = "onicecandidate" /\ ev.ret = "emitted") => pcs[ev.pc].ends = 1

\* C15 (cancellation): an end-of-candidates event handled after cleanup()
\* closed the link publishes nothing and raises nothing.
C15_CancelledGathering ==
  (ev.op = "onicecandidate" /\ webrtc[ev.app].exists /\ webrtc[ev.app].localPC = 0)
    => (ev.err = "" /\ ev.ret # "emitted")

\* C16: sendMessage on a host shows the message locally and sends exactly one
\* chat envelope on every open channel held by a registry record, and nothing
\* elsewhere; on a guest it sends exactly one chat envelope, on the channel of
\* its manager.
C16_SendChat ==
  ev.op = "sendMessage" =>
    LET a == ev.app
        open == {r.chan : r \in {x \in state[a].peers :
                                   x.chan # 0 /\ pcs[x.chan].chan = "open"}}
    IN IF state[a].isHost
       THEN /\ \E i \in 1..Len(ev.shown) : ev.shown[i].kind = "mine"
            /\ \A c \in open : Cardinality(SentOn(c, ev.env)) = 1
            /\ \A i \in 1..Len(ev.sent) : ev.sent[i].pc \in open /\ ev.sent[i].env = ev.env
       ELSE /\ Len(ev.sent) = 1
            /\ ev.sent[1] = [pc |-> webrtc[a].channel, env |-> ev.env]

\* C17: when the host handles an identity envelope of peer P, no system
\* "joined" notice goes out on the channel the envelope came in on: P is not
\* told of its own join.
C17_JoinNotice ==
  (ev.op = "onmessage" /\ ev.env.type = "identity" /\ state[ev.app].isHost) =>
    SentOn(ev.pc, SystemEnv(JoinedText(ev.env.user))) = {}

\* C18: after the host handled a leave envelope naming a user, the registry
\* holds no record of that user.
C18_LeaveRemoves ==
  (ev.op = "onmessage" /\ ev.env.type = "leave" /\ state[ev.app].isHost) =>
    ~Registered(ev.app, ev.env.userId)

\* C19: after the host handled the close of a channel, no registry record
\* holds that channel.
C19_RecordGoesWithLink ==
  (ev.op = "onclose" /\ state[ev.app].isHost) =>
    \A r \in state[ev.app].peers : r.chan # ev.pc

\* C20: a manager in the host role that receives a kick envelope ignores it:
\* the manager, its connection and the application state are as before.
C20_HostIgnoresKick ==
  [][\A a \in LinkApps :
       (ev'.op = "onmessage" /\ ev'.env.type = "kick" /\ ev'.app = a
        /\ webrtc[a].isHost)
       => /\ webrtc'[a] = webrtc[a]
          /\ state'[a] = state[a]
          /\ ~pcs'[ev'.pc].closed]_vars

\* C21 (session teardown): a host that exits sends a close envelope on every
\* open channel to a guest of its registry; a guest that dispatches a close
\* envelope ends its session: connection and channel closed, manager gone,
\* nothing sent, no frame left to dispatch.
C21_Teardown ==
  [][/\ (ev'.op = "confirmExit" /\ ev'.app = Host /\ state[Host].isHost) =>
          \A g \in Guests : Registered(Host, g) =>
            \A p \in OpenLinksTo(g) :
              \E i \in 1..Len(ev'.sent) : ev'.sent[i] = [pc |-> p, env |-> CloseEnv]
     /\ \A g \in Guests :
          (ev'.op = "onmessage" /\ ev'.env.type = "close" /\ ev'.app = g) =>
            /\ state'[g].currentScreen = "login"
            /\ ~webrtc'[g].exists
            /\ ev'.sent = << >>
            /\ \A p \in SlotsOf(g) :
                 pcs'[p].made => (pcs'[p].closed /\ inbox'[p] = << >>)]_vars

\* C22 (unrecognized envelopes): dispatching an envelope of a type outside
\* the protocol calls no application callback and changes nothing: session,
\* manager, connections, store and canvas are as before, nothing is sent,
\* shown or raised, and the channel it came in on stays open.
C22_UnknownDropped ==
  [][(ev'.op = "onmessage" /\ ev'.env = UnknownEnv) =>
       /\ state' = state /\ webrtc' = webrtc /\ pcs' = pcs
       /\ store' = store /\ qr' = qr /\ clk' = clk
       /\ ev'.sent = << >> /\ ev'.shown = << >> /\ ev'.err = ""
       /\ pcs'[ev'.pc].chan = "open"]_vars

\* C22's case: a manager with its callbacks set dispatched an envelope of
\* unknown type on a channel whose far end is still connected.
C22_Witness ==
  /\ ev.op = "onmessage" /\ ev.env = UnknownEnv
  /\ webrtc[ev.app].cb /\ pcs[ev.pc].chan = "open"
  /\ PeerOf(pcs, ev.pc) # 0 /\ pcs[PeerOf(pcs, ev.pc)].chan = "open"

\* C23 (req-identity): a page that has dispatched a req-identity envelope
\* which came in on an open channel has sent an identity envelope with its
\* own profile on that channel.
C23_IdentityReply ==
  (ev.op = "onmessage" /\ ev.env.type = "req-identity" /\ webrtc[ev.app].cb
   /\ pcs[ev.pc].chan = "open")
    => SentOn(ev.pc, IdentityEnv(UserOf(ev.app))) # {}

\* The events the last setState call dispatched, and the place of an event
\* in that call: "update" first, then the event of each key of the update
\* object in turn.
Dispatched ==
  {"update"} \cup {ChangeOf(bus.updates[i][1]) : i \in 1..Len(bus.updates)}
PlaceOf(event) ==
  IF event = "update" THEN 0
  ELSE CHOOSE i \in 1..Len(bus.updates) : ChangeOf(bus.updates[i][1]) = event

\* C24 (snapshot dispatch): in a dispatch, every listener that was subscribed
\* to the event when the dispatch started is called exactly once, whatever
\* the listeners unsubscribe while it runs.
C24_SnapshotDispatch ==
  bus.op = "setState" =>
    \A e \in Dispatched : \A i \in 1..Len(bus.start[e]) :
      Cardinality({n \in 1..Len(bus.log) :
                     bus.log[n].event = e /\ bus.log[n].cb = bus.start[e][i]}) = 1

\* C25 (publish order): setState merges the update into the state, then calls
\* the listeners of "update", then those of the event of each changed key,
\* each group in subscription order; every listener sees the merged state,
\* and the event of a key is dispatched only if the key's value changed.
C25_PublishOrder ==
  bus.op = "setState" =>
    /\ bus.state = Merge(bus.prev, bus.updates)
    /\ \A n \in 1..Len(bus.log) :
         /\ bus.log[n].seen = bus.state
         /\ bus.log[n].event \in Dispatched
         /\ \A k \in StoreKeys :
              bus.log[n].event = ChangeOf(k) => bus.prev[k] # bus.state[k]
    /\ \A n \in 1..Len(bus.log) : \A m \in (n + 1)..Len(bus.log) :
         /\ PlaceOf(bus.log[n].event) <= PlaceOf(bus.log[m].event)
         /\ bus.log[n].event = bus.log[m].event =>
              IndexOf(bus.start[bus.log[n].event], bus.log[n].cb)
                < IndexOf(bus.start[bus.log[m].event], bus.log[m].cb)

\* C26 (peerId uniqueness): dispatching an identity envelope leaves the
\* registry records of every other user in place, under their keys.
C26_KeysUnique ==
  [][\A a \in Apps :
       (ev'.op = "onmessage" /\ ev'.env.type = "identity" /\ ev'.app = a) =>
         \A r \in state[a].peers :
           r.user.id # ev'.env.user.id => r \in state'[a].peers]_vars

\* C27 (invalid token): a typed code that does not decode to a descriptor
\* gives the manual-entry action a failure result and leaves the session as
\* it was: no connection is created, and page state and manager are unchanged.
C27_InvalidToken ==
  [][\A a \in Guests :
       (ev'.op = "handleManualCode" /\ ev'.app = a
        /\ Decoded[ev'.data].kind # "object")
       => /\ ev'.ret = "failure"
          /\ state'[a] = state[a] /\ webrtc'[a] = webrtc[a]
          /\ \A p \in SlotsOf(a) : pcs'[p] = pcs[p]]_vars

\* C28 (negotiation failure closes the link): after a handleAnswer or a
\* createAnswer that raised, the manager holds no connection and no channel,
\* and the connection the call worked on is closed.
C28_FailureCloses ==
  (ev.op \in {"handleAnswer", "createAnswer"} /\ ev.err # "" /\ ev.pc # 0) =>
    /\ webrtc[ev.app].localPC = 0 /\ webrtc[ev.app].channel = 0
    /\ pcs[ev.pc].closed

\* C29 (single guest link): a createAnswer that succeeds on a manager whose
\* answering connection already took an offer creates no further connection
\* and leaves the manager on the one it holds.
C29_SingleGuestLink ==
  [][\A a \in LinkApps :
       (/\ ev'.op = "createAnswer" /\ ev'.app = a /\ ev'.err = ""
        /\ webrtc[a].localPC # 0
        /\ ~pcs[webrtc[a].localPC].offerer /\ ~pcs[webrtc[a].localPC].closed
        /\ pcs[webrtc[a].localPC].remote.kind = "object")
       => /\ webrtc'[a].localPC = webrtc[a].localPC
          /\ \A p \in SlotsOf(a) : pcs'[p].made = pcs[p].made]_vars

\* C30 (history hand-off): a page that has dispatched and surfaced a chat or
\* system envelope has handed exactly one entry to storage.add.
C30_HistoryHandOff ==
  (ev.op = "onmessage" /\ ev.env.type \in {"chat", "system"} /\ ev.shown # << >>)
    => Len(ev.logged) = 1

\* C31 (per-guest links on the host): the record the host stores for an
\* identity envelope holds the channel the envelope came in on, and no two
\* records of different users hold the same channel.
C31_PerGuestLinks ==
  /\ (ev.op = "onmessage" /\ ev.env.type = "identity" /\ ev.app = Host
      /\ state[Host].isHost) =>
       \E r \in state[Host].peers :
         r.key = clk[Host] /\ r.user = ev.env.user /\ r.chan = ev.pc
  /\ state[Host].isHost =>
       \A r1 \in state[Host].peers : \A r2 \in state[Host].peers :
         (r1.user.id # r2.user.id /\ r1.chan # 0) => r1.chan # r2.chan

\* The host has just handled the closing of channel ev.pc while at least two
\* users were in its registry.
C32_DropAmongPeers ==
  /\ ev.op = "onclose" /\ ev.app = Host /\ state[Host].isHost
  /\ Cardinality({r.user.id : r \in state[Host].peers}) >= 2

\* C32 (host isolation from one guest's drop): after the closing of one
\* peer's channel on a host with at least two registered peers the host is
\* still connected, and a sendMessage then sends the chat envelope on the
\* open channel of every other registered peer.
C32_HostIsolation ==
  C32_DropAmongPeers =>
    /\ state[Host].isConnected
    /\ LET W == sendMessageTapped(World, Host)
       IN \A r \in state[Host].peers :
            (r.chan # 0 /\ r.chan # ev.pc /\ pcs[r.chan].chan = "open") =>
              \E i \in 1..Len(W.sent) :
                W.sent[i] = [pc |-> r.chan, env |-> ChatEnv(HiText, UserOf(Host))]

\* A drop among peers where another registered peer's channel is still open.
C32_Reached ==
  /\ C32_DropAmongPeers
  /\ \E r \in state[Host].peers :
       r.chan # 0 /\ r.chan # ev.pc /\ pcs[r.chan].chan = "open"

\* The handlers that setupChannelHandlers and ondatachannel attach.
ChannelEvents == {"onopen", "ondatachannel", "onmessage", "onclose"}

\* The step is a channel event on device a in which no callback of the page
\* ran and nothing was raised: nothing was rendered or toasted, no identity
\* was sent (only the req-identity of onopen), and the page's state is as it
\* was, or the page was reloaded (a close or kick envelope).
C33_Silent(a) ==
  /\ ev'.err = ""
  /\ \A i \in 1..Len(ev'.shown) : ev'.shown[i].kind = "alert"
  /\ \A i \in 1..Len(ev'.sent) : ev'.sent[i].env = ReqIdentityEnv
  /\ state'[a] = state[a] \/ state'[a] = InitState

\* C33 (no callbacks after destroy): destroy() leaves the manager without
\* callbacks, nothing assigns them again, and every channel event that fires
\* on a manager without callbacks (late open, message or close) invokes no
\* callback of the page and raises no error.
C33_NoCallbacksAfterDestroy ==
  [][\A a \in LinkApps :
       /\ (ev'.op = "destroy" /\ ev'.app = a) => ~webrtc'[a].cb
       /\ (webrtc[a].exists /\ ~webrtc[a].cb) =>
            /\ webrtc'[a].exists => ~webrtc'[a].cb
            /\ (ev'.app = a /\ ev'.op \in ChannelEvents) => C33_Silent(a)]_vars

\* A chat envelope has been dispatched by a manager that was destroyed and
\* not used since: it came in on a connection made before the destroy().
C33_Witness ==
  /\ ev.op = "onmessage" /\ ev.env.type = "chat"
  /\ webrtc[ev.app].exists /\ ~webrtc[ev.app].cb
  /\ webrtc[ev.app].localPC = 0 /\ webrtc[ev.app].channel = 0

=============================================================================
